---- MODULE Spec2Model ----
(***************************************************************************)
(* A model of openquake/baselib/workerpool.py: the WorkerMaster control    *)
(* client, the WorkerPool supervisor with its worker processes, the        *)
(* streamer and the _starmap submission protocol.                          *)
(*                                                                         *)
(* Every process (a master, a pool supervisor, a worker, the streamer, a   *)
(* submission run) is sequential; a step of the model is the code a        *)
(* process runs between two points where another process can observe or   *)
(* influence it (a socket send/receive, a bind, a connect probe, a         *)
(* signal, a process launch).                                              *)
(***************************************************************************)
EXTENDS Integers, Sequences, FiniteSets, TLC

\* ---------------------------------------------------------------- bounds
\* number of WorkerMaster calls one master issues
MaxOps == 3
\* number of pool processes ever launched (subprocess.Popen calls)
MaxPools == 3
\* longest input sequence (iterargs) of one submission run
MaxTasks == 3

\* ------------------------------------------------------------- universes
Masters == {1, 2}
Pools == 1..MaxPools
Slots == {1, 2}
Workers == Pools \X Slots
Runs == {1, 2}
Ports == {1, 2}

\* The host_cores configurations a WorkerMaster is constructed with
\* ("127.0.0.1 2" and "host1 1,host2 1"), after the split of line 48.
Configs ==
    { << [host |-> 1, cores |-> 2] >>,
      << [host |-> 1, cores |-> 1], [host |-> 2, cores |-> 1] >> }
Hosts == {1, 2}

NoReq == [h |-> 0, cmd |-> "none"]
NoRep == [kind |-> "none", val |-> 0, from |-> 0]
NoCur == [m |-> 0, cmd |-> "none"]
NoOut == [i \in Slots |-> "none"]
NoRet == [kind |-> "none", val |-> 0]
NoTask == [run |-> 0, k |-> 0, raises |-> FALSE, backurl |-> 0]
NoStat == [arg |-> 0, lst |-> << >>, open |-> 0]

VARIABLES
    host_cores,   \* WorkerMaster.host_cores, the same for every master
    mop,          \* per master: the call in progress or the last call made
    mpc,          \* per master: "idle" | "loop" | "wait"
    midx,         \* per master: position of the for loop in host_cores
    murl,         \* per master: host of the local ctrl_url, 0 while unbound
    mout,         \* per master: what the current call did at each position
    mret,         \* per master: what the last call returned: its kind
                  \* ("error" for an exception) and, for a pid, the value
    prevRet,      \* per master: mret of the call before the current one
    prevOp,       \* per master: the call made before the current one
    prevOut,      \* per master: mout of that call
    nops,         \* per master: calls made so far
    stat,         \* per master: the locals of its last status call: the
                  \* host argument (0 for None), the list lst built so
                  \* far and the number of probe sockets not yet closed
    req,          \* per master: its control request in flight
    rep,          \* per master: the reply in flight to it
    ctrlBound,    \* per host: the pool that owns the control port, or 0
    nextPool,     \* the next process to be launched
    pstate,       \* per pool: "none" | "spawning" | "loop" | "reply" |
                  \*           "done" | "exited" | "bindfail" |
                  \*           "unanswered" | "failed"
    phost,        \* per pool: the host of its ctrl_url
    pcores,       \* per pool: WorkerPool.num_workers
    pworkers,     \* per pool: len(WorkerPool.workers)
    pcur,         \* per pool: the request read and not yet answered
    selfpid,      \* per pool: WorkerPool.pid
    wstate,       \* per worker: "none" | "idle" | "busy" | "dead"
    wsig,         \* per worker: the signal sent to it, "none" | "INT" | "TERM"
    wtask,        \* per worker: the task it holds
    wheld,        \* history, per worker: the task it held when it was signalled
    streamer,     \* "new" | "running" | "ended"
    taskIn,       \* messages pushed to task_in_url, not yet relayed
    taskOut,      \* messages relayed to task_out_url, not yet pulled
    runpc,        \* per run: "new" | "sending" | "collect" | "done"
    iterargs,     \* per run: the input sequence (TRUE: the callable raises)
    rport,        \* per run: receiver.true_end_point, 0 while not bound
    nsent,        \* per run: the counter n
    announced,    \* per run: the first value yielded, -1 before
    got,          \* per run: the results yielded, in order
    inbox,        \* per port: results pushed to it and not yet received
    executed      \* history: the (worker, run, k) of every safely_call

mvars == << mop, mpc, midx, murl, mout, mret, prevRet, prevOp, prevOut, nops, stat >>
cvars == << req, rep >>
pvars == << ctrlBound, nextPool, pstate, phost, pcores, pworkers, pcur, selfpid >>
wvars == << wstate, wsig, wtask, wheld >>
svars == << streamer, taskIn, taskOut >>
rvars == << runpc, iterargs, rport, nsent, announced, got >>
vars == << host_cores, mvars, cvars, pvars, wvars, svars, rvars, inbox, executed >>

\* ------------------------------------------------------------ OS helpers
\* os.getpid() in a pool supervisor and proc.pid of its i-th child: the
\* operating system gives every live process a number of its own.
OsPid(p, i) == p * 10 + i

\* socket.connect_ex succeeds iff some process listens on the control port
Probe(h) == IF ctrlBound[h] # 0 THEN "running" ELSE "not-running"

Init ==
    /\ host_cores \in Configs
    /\ mop = [m \in Masters |-> "none"]
    /\ mpc = [m \in Masters |-> "idle"]
    /\ midx = [m \in Masters |-> 1]
    /\ murl = [m \in Masters |-> 0]
    /\ mout = [m \in Masters |-> NoOut]
    /\ mret = [m \in Masters |-> NoRet]
    /\ prevRet = [m \in Masters |-> NoRet]
    /\ prevOp = [m \in Masters |-> "none"]
    /\ prevOut = [m \in Masters |-> NoOut]
    /\ nops = [m \in Masters |-> 0]
    /\ stat = [m \in Masters |-> NoStat]
    /\ req = [m \in Masters |-> NoReq]
    /\ rep = [m \in Masters |-> NoRep]
    /\ ctrlBound = [h \in Hosts |-> 0]
    /\ nextPool = 1
    /\ pstate = [p \in Pools |-> "none"]
    /\ phost = [p \in Pools |-> 0]
    /\ pcores = [p \in Pools |-> 0]
    /\ pworkers = [p \in Pools |-> 0]
    /\ pcur = [p \in Pools |-> NoCur]
    /\ selfpid = [p \in Pools |-> 0]
    /\ wstate = [w \in Workers |-> "none"]
    /\ wsig = [w \in Workers |-> "none"]
    /\ wtask = [w \in Workers |-> NoTask]
    /\ wheld = [w \in Workers |-> NoTask]
    /\ streamer = "new"
    /\ taskIn = << >>
    /\ taskOut = << >>
    /\ runpc = [r \in Runs |-> "new"]
    /\ iterargs = [r \in Runs |-> << >>]
    /\ rport = [r \in Runs |-> 0]
    /\ nsent = [r \in Runs |-> 0]
    /\ announced = [r \in Runs |-> -1]
    /\ got = [r \in Runs |-> << >>]
    /\ inbox = [q \in Ports |-> << >>]
    /\ executed = {}

\* ---------------------------------------------------------- WorkerMaster
\* A master calls one of its methods, status with the host argument h (0
\* for None): the previous call has returned.
MasterCallWith(m, op, h) ==
    /\ mpc[m] = "idle"
    /\ nops[m] < MaxOps
    /\ stat' = [stat EXCEPT ![m] = [arg |-> h, lst |-> << >>, open |-> 0]]
    /\ mop' = [mop EXCEPT ![m] = op]
    /\ mpc' = [mpc EXCEPT ![m] = "loop"]
    /\ midx' = [midx EXCEPT ![m] = 1]
    /\ murl' = [murl EXCEPT ![m] = 0]
    /\ mout' = [mout EXCEPT ![m] = NoOut]
    /\ mret' = [mret EXCEPT ![m] = NoRet]
    /\ prevRet' = [prevRet EXCEPT ![m] = mret[m]]
    /\ prevOp' = [prevOp EXCEPT ![m] = mop[m]]
    /\ prevOut' = [prevOut EXCEPT ![m] = mout[m]]
    /\ nops' = [nops EXCEPT ![m] = @ + 1]
    /\ UNCHANGED << host_cores, cvars, pvars, wvars, svars, rvars, inbox, executed >>

\* a call without argument
MasterCall(m, op) == MasterCallWith(m, op, 0)

InLoop(m, op) ==
    /\ mop[m] = op
    /\ mpc[m] = "loop"
    /\ midx[m] <= Len(host_cores)

AtEnd(m, op) ==
    /\ mop[m] = op
    /\ mpc[m] = "loop"
    /\ midx[m] > Len(host_cores)

Advance(m, what) ==
    /\ mout' = [mout EXCEPT ![m][midx[m]] = what]
    /\ midx' = [midx EXCEPT ![m] = @ + 1]

Return(m, value) ==
    /\ mpc' = [mpc EXCEPT ![m] = "idle"]
    /\ mret' = [mret EXCEPT ![m] = [kind |-> value, val |-> 0]]
    /\ UNCHANGED << host_cores, stat, mop, midx, murl, mout, prevRet, prevOp, prevOut, nops,
                    cvars, pvars, wvars, svars, rvars, inbox, executed >>

\* subprocess.Popen of the pool program for host h with `cores` workers;
\* WorkerPool.__init__ runs in the new process.
Launch(h, cores) ==
    /\ nextPool <= MaxPools
    /\ pstate' = [pstate EXCEPT ![nextPool] = "spawning"]
    /\ phost' = [phost EXCEPT ![nextPool] = h]
    /\ pcores' = [pcores EXCEPT ![nextPool] = cores]
    /\ selfpid' = [selfpid EXCEPT ![nextPool] = OsPid(nextPool, 0)]
    /\ nextPool' = nextPool + 1
    /\ UNCHANGED << ctrlBound, pworkers, pcur >>

\* one iteration of the loop of WorkerMaster.start
StartStep(m) ==
    /\ InLoop(m, "start")
    /\ LET hc == host_cores[midx[m]] IN
         IF Probe(hc.host) = "running"
         THEN /\ Advance(m, "skip")
              /\ UNCHANGED << murl, pvars >>
         ELSE /\ Launch(hc.host, hc.cores)
              /\ murl' = [murl EXCEPT ![m] = hc.host]
              /\ Advance(m, "launch")
    /\ UNCHANGED << host_cores, stat, mop, mpc, mret, prevRet, prevOp, prevOut, nops,
                    cvars, wvars, svars, rvars, inbox, executed >>

\* the return statement of WorkerMaster.start reads ctrl_url, a local
\* that only an iteration which launched a pool has assigned
StartValue(m) == IF murl[m] # 0 THEN "started" ELSE "error"

StartReturn(m) ==
    /\ AtEnd(m, "start")
    /\ Return(m, StartValue(m))

\* a variant that sends the command without looking at the probe
StopStep_noskip(m, cmd) ==
    /\ InLoop(m, cmd)
    /\ LET hc == host_cores[midx[m]] IN
         /\ req' = [req EXCEPT ![m] = [h |-> hc.host, cmd |-> cmd]]
         /\ mpc' = [mpc EXCEPT ![m] = "wait"]
         /\ mout' = [mout EXCEPT ![m][midx[m]] = "sent"]
         /\ UNCHANGED midx
    /\ UNCHANGED << host_cores, stat, mop, murl, mret, prevRet, prevOp, prevOut, nops, rep,
                    pvars, wvars, svars, rvars, inbox, executed >>

\* one iteration of the loop of WorkerMaster.stop / WorkerMaster.kill up to
\* the blocking receive of the REQ socket
StopStep(m, cmd) ==
    /\ InLoop(m, cmd)
    /\ LET hc == host_cores[midx[m]] IN
         IF Probe(hc.host) = "not-running"
         THEN /\ Advance(m, "skip")
              /\ UNCHANGED << mpc, req >>
         ELSE /\ req' = [req EXCEPT ![m] = [h |-> hc.host, cmd |-> cmd]]
              /\ mpc' = [mpc EXCEPT ![m] = "wait"]
              /\ mout' = [mout EXCEPT ![m][midx[m]] = "sent"]
              /\ UNCHANGED midx
    /\ UNCHANGED << host_cores, stat, mop, murl, mret, prevRet, prevOp, prevOut, nops, rep,
                    pvars, wvars, svars, rvars, inbox, executed >>

\* a variant that goes to the next host without the reply
StopRecv_nowait(m, cmd) ==
    /\ mop[m] = cmd
    /\ mpc[m] = "wait"
    /\ rep' = [rep EXCEPT ![m] = NoRep]
    /\ mpc' = [mpc EXCEPT ![m] = "loop"]
    /\ Advance(m, "replied")
    /\ UNCHANGED << host_cores, stat, mop, murl, mret, prevRet, prevOp, prevOut, nops, req,
                    pvars, wvars, svars, rvars, inbox, executed >>

\* the reply arrives: print it and go to the next host
StopRecv(m, cmd) ==
    /\ mop[m] = cmd
    /\ mpc[m] = "wait"
    /\ rep[m] # NoRep
    /\ rep' = [rep EXCEPT ![m] = NoRep]
    /\ mpc' = [mpc EXCEPT ![m] = "loop"]
    /\ Advance(m, "replied")
    /\ UNCHANGED << host_cores, stat, mop, murl, mret, prevRet, prevOp, prevOut, nops, req,
                    pvars, wvars, svars, rvars, inbox, executed >>

StopValue(cmd) == IF cmd = "stop" THEN "stopped" ELSE "killed"

StopReturn(m, cmd) ==
    /\ AtEnd(m, cmd)
    /\ Return(m, StopValue(cmd))

\* a variant that asks the pool for its pid instead of probing its port
StatusStep_ask(m) ==
    /\ InLoop(m, "status")
    /\ LET hc == host_cores[midx[m]] IN
         /\ Advance(m, Probe(hc.host))
         /\ stat' = [stat EXCEPT ![m].lst = Append(@, << hc.host, Probe(hc.host) >>)]
         /\ req' = [req EXCEPT ![m] = [h |-> hc.host, cmd |-> "getpid"]]
    /\ UNCHANGED << host_cores, mop, mpc, murl, mret, prevRet, prevOp, prevOut, nops,
                    rep, pvars, wvars, svars, rvars, inbox, executed >>

\* one entry of self.host_cores in WorkerMaster.status: an entry that the
\* host argument filters out is passed over; for the others the loop body
\* creates a socket, connect_ex returns its error code, the finally clause
\* closes the socket and the pair is appended to lst
StatusStep(m) ==
    /\ InLoop(m, "status")
    /\ LET hc == host_cores[midx[m]] IN
         IF stat[m].arg \in {0, hc.host}
         THEN /\ Advance(m, Probe(hc.host))
              /\ stat' = [stat EXCEPT ![m].lst = Append(@, << hc.host, Probe(hc.host) >>),
                                       ![m].open = (@ + 1) - 1]
         ELSE /\ Advance(m, "filtered")
              /\ UNCHANGED stat
    /\ UNCHANGED << host_cores, mop, mpc, murl, mret, prevRet, prevOp, prevOut, nops,
                    cvars, pvars, wvars, svars, rvars, inbox, executed >>

\* connect_ex raises instead of returning a code (the name of the host
\* does not resolve): the finally clause closes the socket and the
\* exception leaves status()
StatusRaise(m) ==
    /\ InLoop(m, "status")
    /\ stat[m].arg \in {0, host_cores[midx[m]].host}
    /\ mpc' = [mpc EXCEPT ![m] = "idle"]
    /\ mret' = [mret EXCEPT ![m] = [kind |-> "error", val |-> 0]]
    /\ mout' = [mout EXCEPT ![m][midx[m]] = "raised"]
    /\ stat' = [stat EXCEPT ![m].open = (@ + 1) - 1]
    /\ UNCHANGED << host_cores, mop, midx, murl, prevRet, prevOp, prevOut, nops,
                    cvars, pvars, wvars, svars, rvars, inbox, executed >>

StatusReturn(m) ==
    /\ AtEnd(m, "status")
    /\ Return(m, "list")

\* A control client sends 'getpid' to the pool of the i-th configured host
\* over a REQ socket and blocks for the reply.
GetpidSend(m) ==
    /\ InLoop(m, "getpid")
    /\ mout[m] = NoOut
    /\ \E i \in 1..Len(host_cores) :
         /\ req' = [req EXCEPT ![m] = [h |-> host_cores[i].host, cmd |-> "getpid"]]
         /\ midx' = [midx EXCEPT ![m] = i]
         /\ mout' = [mout EXCEPT ![m][i] = "sent"]
    /\ mpc' = [mpc EXCEPT ![m] = "wait"]
    /\ UNCHANGED << host_cores, stat, mop, murl, mret, prevRet, prevOp, prevOut, nops, rep,
                    pvars, wvars, svars, rvars, inbox, executed >>

\* A control client sends a string that is no command of the protocol
\* ('ping') to the pool of the i-th configured host over a REQ socket and
\* blocks for the reply.
RawSend(m) ==
    /\ InLoop(m, "raw")
    /\ mout[m] = NoOut
    /\ \E i \in 1..Len(host_cores) :
         /\ req' = [req EXCEPT ![m] = [h |-> host_cores[i].host, cmd |-> "ping"]]
         /\ midx' = [midx EXCEPT ![m] = i]
         /\ mout' = [mout EXCEPT ![m][i] = "sent"]
    /\ mpc' = [mpc EXCEPT ![m] = "wait"]
    /\ UNCHANGED << host_cores, stat, mop, murl, mret, prevRet, prevOp, prevOut, nops, rep,
                    pvars, wvars, svars, rvars, inbox, executed >>

GetpidRecv(m) ==
    /\ mop[m] = "getpid"
    /\ mpc[m] = "wait"
    /\ rep[m] # NoRep
    /\ rep' = [rep EXCEPT ![m] = NoRep]
    /\ mpc' = [mpc EXCEPT ![m] = "idle"]
    /\ mret' = [mret EXCEPT ![m] = [kind |-> rep[m].kind, val |-> rep[m].val]]
    /\ mout' = [mout EXCEPT ![m][midx[m]] = "replied"]
    /\ UNCHANGED << host_cores, stat, mop, midx, murl, prevRet, prevOp, prevOut, nops, req,
                    pvars, wvars, svars, rvars, inbox, executed >>

\* ------------------------------------------------------------ WorkerPool
\* a variant that also replaces a dead worker while in the control loop
PoolSpawn_respawn(p) ==
    /\ \/ /\ pstate[p] = "spawning"
          /\ pworkers[p] < pcores[p]
          /\ pworkers' = [pworkers EXCEPT ![p] = @ + 1]
          /\ wstate' = [wstate EXCEPT ![<< p, pworkers[p] + 1 >>] = "idle"]
       \/ /\ pstate[p] = "loop"
          /\ \E i \in 1..pworkers[p] :
               /\ wstate[<< p, i >>] = "dead"
               /\ wstate' = [wstate EXCEPT ![<< p, i >>] = "idle"]
          /\ UNCHANGED pworkers
    /\ UNCHANGED << host_cores, mvars, cvars, ctrlBound, nextPool, pstate, phost,
                    pcores, pcur, selfpid, wsig, wtask, wheld, svars, rvars, inbox, executed >>

\* one iteration of the spawn loop of WorkerPool.start: the new worker
\* process starts in WorkerPool.worker, blocked on its PULL socket
PoolSpawn(p) ==
    /\ pstate[p] = "spawning"
    /\ pworkers[p] < pcores[p]
    /\ pworkers' = [pworkers EXCEPT ![p] = @ + 1]
    /\ wstate' = [wstate EXCEPT ![<< p, pworkers[p] + 1 >>] = "idle"]
    /\ UNCHANGED << host_cores, mvars, cvars, ctrlBound, nextPool, pstate, phost,
                    pcores, pcur, selfpid, wsig, wtask, wheld, svars, rvars, inbox, executed >>

\* a variant that binds the control socket before the spawn loop is over
PoolBind_early(p) ==
    /\ pstate[p] = "spawning"
    /\ IF ctrlBound[phost[p]] = 0
       THEN /\ ctrlBound' = [ctrlBound EXCEPT ![phost[p]] = p]
            /\ pstate' = [pstate EXCEPT ![p] = "loop"]
       ELSE /\ pstate' = [pstate EXCEPT ![p] = "bindfail"]
            /\ UNCHANGED ctrlBound
    /\ UNCHANGED << host_cores, mvars, cvars, nextPool, phost, pcores, pworkers,
                    pcur, selfpid, wvars, svars, rvars, inbox, executed >>

\* the bind of the control socket, after the spawn loop: it fails when
\* another process owns the address and the exception leaves start()
PoolBind(p) ==
    /\ pstate[p] = "spawning"
    /\ pworkers[p] = pcores[p]
    /\ IF ctrlBound[phost[p]] = 0
       THEN /\ ctrlBound' = [ctrlBound EXCEPT ![phost[p]] = p]
            /\ pstate' = [pstate EXCEPT ![p] = "loop"]
       ELSE /\ pstate' = [pstate EXCEPT ![p] = "bindfail"]
            /\ UNCHANGED ctrlBound
    /\ UNCHANGED << host_cores, mvars, cvars, nextPool, phost, pcores, pworkers,
                    pcur, selfpid, wvars, svars, rvars, inbox, executed >>

\* a variant whose loop over self.workers misses the first handle
SignalAll_butfirst(p, sig) ==
    [w \in Workers |-> IF w[1] = p /\ w[2] <= pworkers[p] /\ w[2] > 1 THEN sig ELSE wsig[w]]

\* os.kill(sock.pid, sig) for every sock of self.workers
SignalAll(p, sig) ==
    [w \in Workers |-> IF w[1] = p /\ w[2] <= pworkers[p] THEN sig ELSE wsig[w]]

\* a variant that replies to stop and kill without signalling anybody
AfterCommand_nosignal(p, cmd) == wsig

\* the signals WorkerPool.stop / WorkerPool.kill / a getpid leave behind
AfterCommand(p, cmd) ==
    CASE cmd = "stop" -> SignalAll(p, "INT")
      [] cmd = "kill" -> SignalAll(p, "TERM")
      [] OTHER -> wsig

\* a variant that reads the next request before it has answered the last
PoolRecv_eager(p) ==
    /\ pstate[p] \in {"loop", "reply"}
    /\ ctrlBound[phost[p]] = p
    /\ \E m \in Masters :
         /\ req[m].h = phost[p]
         /\ req' = [req EXCEPT ![m] = NoReq]
         /\ pcur' = [pcur EXCEPT ![p] = [m |-> m, cmd |-> req[m].cmd]]
         /\ wsig' = AfterCommand(p, req[m].cmd)
         /\ wheld' = [w \in Workers |->
                         IF wsig'[w] # wsig[w] THEN wtask[w] ELSE wheld[w]]
    /\ pstate' = [pstate EXCEPT ![p] = "reply"]
    /\ UNCHANGED << host_cores, mvars, rep, ctrlBound, nextPool, phost, pcores,
                    pworkers, selfpid, wstate, wtask, svars, rvars, inbox, executed >>

\* the control loop reads one request; stop and kill run at once
PoolRecv(p) ==
    /\ pstate[p] = "loop"
    /\ ctrlBound[phost[p]] = p
    /\ \E m \in Masters :
         /\ req[m].h = phost[p]
         /\ req' = [req EXCEPT ![m] = NoReq]
         /\ pcur' = [pcur EXCEPT ![p] = [m |-> m, cmd |-> req[m].cmd]]
         /\ wsig' = AfterCommand(p, req[m].cmd)
         /\ wheld' = [w \in Workers |->
                         IF wsig'[w] # wsig[w] THEN wtask[w] ELSE wheld[w]]
    /\ pstate' = [pstate EXCEPT ![p] = "reply"]
    /\ UNCHANGED << host_cores, mvars, rep, ctrlBound, nextPool, phost, pcores,
                    pworkers, selfpid, wstate, wtask, svars, rvars, inbox, executed >>

\* a variant that answers getpid with the pid of the first worker handle
Message_workerpid(p, cmd) ==
    CASE cmd = "stop" -> [kind |-> "stopped", val |-> phost[p], from |-> p]
      [] cmd = "kill" -> [kind |-> "killed", val |-> phost[p], from |-> p]
      [] OTHER -> [kind |-> "pid", val |-> OsPid(p, 1), from |-> p]

\* the reply of the control loop to the command it has read
Message(p, cmd) ==
    CASE cmd = "stop" -> [kind |-> "stopped", val |-> phost[p], from |-> p]
      [] cmd = "kill" -> [kind |-> "killed", val |-> phost[p], from |-> p]
      [] OTHER -> [kind |-> "pid", val |-> selfpid[p], from |-> p]

\* a variant without the break
AfterReply_nobreak(cmd) == "loop"

\* where the control loop goes after the reply: break on stop and kill
AfterReply(cmd) == IF cmd \in {"stop", "kill"} THEN "done" ELSE "loop"

PoolSend(p) ==
    /\ pstate[p] = "reply"
    /\ pcur[p].cmd \in {"stop", "kill", "getpid"}
    /\ rep' = [rep EXCEPT ![pcur[p].m] = Message(p, pcur[p].cmd)]
    /\ pstate' = [pstate EXCEPT ![p] = AfterReply(pcur[p].cmd)]
    /\ pcur' = [pcur EXCEPT ![p] = NoCur]
    /\ UNCHANGED << host_cores, mvars, req, ctrlBound, nextPool, phost, pcores,
                    pworkers, selfpid, wvars, svars, rvars, inbox, executed >>

\* a command that is none of 'stop', 'kill' and 'getpid': neither branch
\* of the loop body runs and the for statement goes back to its REP
\* socket with the request unanswered
PoolSkip(p) ==
    /\ pstate[p] = "reply"
    /\ pcur[p].cmd \notin {"stop", "kill", "getpid"}
    /\ pstate' = [pstate EXCEPT ![p] = "unanswered"]
    /\ UNCHANGED << host_cores, mvars, cvars, ctrlBound, nextPool, phost, pcores,
                    pworkers, pcur, selfpid, wvars, svars, rvars, inbox, executed >>

\* the REP socket refuses a receive while a request is unanswered: the
\* control loop ends without a reply and the process leaves start(); a
\* pool that never takes this step stays blocked
PoolAbort(p) ==
    /\ pstate[p] = "unanswered"
    /\ pstate' = [pstate EXCEPT ![p] = "failed"]
    /\ ctrlBound' = [ctrlBound EXCEPT ![phost[p]] = 0]
    /\ UNCHANGED << host_cores, mvars, cvars, nextPool, phost, pcores, pworkers,
                    pcur, selfpid, wvars, svars, rvars, inbox, executed >>

\* start() has returned: the process ends and its control port is freed
PoolExit(p) ==
    /\ pstate[p] = "done"
    /\ pstate' = [pstate EXCEPT ![p] = "exited"]
    /\ ctrlBound' = [ctrlBound EXCEPT ![phost[p]] = 0]
    /\ UNCHANGED << host_cores, mvars, cvars, nextPool, phost, pcores, pworkers,
                    pcur, selfpid, wvars, svars, rvars, inbox, executed >>

\* a signalled worker process ends, whatever it was doing
WorkerExit(w) ==
    /\ wstate[w] \in {"idle", "busy"}
    /\ wsig[w] # "none"
    /\ wstate' = [wstate EXCEPT ![w] = "dead"]
    /\ wtask' = [wtask EXCEPT ![w] = NoTask]
    /\ UNCHANGED << host_cores, mvars, cvars, pvars, wsig, wheld, svars, rvars, inbox, executed >>

\* a worker process dies on its own (a crash, an operator's kill -9): no
\* signal of its pool is involved
WorkerCrash(w) ==
    /\ wstate[w] \in {"idle", "busy"}
    /\ wsig[w] = "none"
    /\ wstate' = [wstate EXCEPT ![w] = "dead"]
    /\ wtask' = [wtask EXCEPT ![w] = NoTask]
    /\ UNCHANGED << host_cores, mvars, cvars, pvars, wsig, wheld, svars, rvars, inbox, executed >>

\* -------------------------------------------------------------- streamer
\* a variant whose except clause names zmq.ZMQError only
Caught_zmqonly(exc) == IF exc = "ZMQError" THEN "ended" ELSE "raised"

\* the except clause of streamer(): the two exceptions it names end the
\* function normally ("ended"), any other leaves it ("raised")
Caught(exc) ==
    IF exc \in {"KeyboardInterrupt", "ZMQError"} THEN "ended" ELSE "raised"

\* streamer() binds both endpoints inside its try block and starts the
\* proxy; a ZMQError of either bind ends it at once
StreamerStart ==
    /\ streamer = "new"
    /\ \E bound \in BOOLEAN :
         streamer' = IF bound THEN "running" ELSE Caught("ZMQError")
    /\ UNCHANGED << host_cores, mvars, cvars, pvars, wvars, taskIn, taskOut,
                    rvars, inbox, executed >>

\* a variant that forwards a message and keeps it on the PULL side
StreamerRelay_dup ==
    /\ streamer = "running"
    /\ taskIn # << >>
    /\ Len(taskOut) < MaxTasks
    /\ taskOut' = Append(taskOut, Head(taskIn))
    /\ UNCHANGED << host_cores, mvars, cvars, pvars, wvars, streamer, taskIn,
                    rvars, inbox, executed >>

\* zmq.proxy moves one message from the PULL side to the PUSH side
StreamerRelay ==
    /\ streamer = "running"
    /\ taskIn # << >>
    /\ taskOut' = Append(taskOut, Head(taskIn))
    /\ taskIn' = Tail(taskIn)
    /\ UNCHANGED << host_cores, mvars, cvars, pvars, wvars, streamer,
                    rvars, inbox, executed >>

\* KeyboardInterrupt or ZMQError inside zmq.proxy: caught, streamer returns
StreamerStop ==
    /\ streamer = "running"
    /\ \E exc \in {"KeyboardInterrupt", "ZMQError"} : streamer' = Caught(exc)
    /\ UNCHANGED << host_cores, mvars, cvars, pvars, wvars, taskIn, taskOut,
                    rvars, inbox, executed >>

\* -------------------------------------------------------------- _starmap
ArgSeqs == UNION { [1..n -> BOOLEAN] : n \in 0..MaxTasks }

BoundPorts == { rport[r] : r \in Runs } \ {0}

\* the with statement of _starmap: bind the receiver on a free port of the
\* range of receiver_url and connect the sender; n = 0
RunBind(r) ==
    /\ runpc[r] = "new"
    /\ \E a \in ArgSeqs : iterargs' = [iterargs EXCEPT ![r] = a]
    /\ \E q \in Ports \ BoundPorts : rport' = [rport EXCEPT ![r] = q]
    /\ runpc' = [runpc EXCEPT ![r] = "sending"]
    /\ nsent' = [nsent EXCEPT ![r] = 0]
    /\ UNCHANGED << host_cores, mvars, cvars, pvars, wvars, svars,
                    announced, got, inbox, executed >>

\* a variant that sends the message before the backurl is set
TaskOf_late(r, k) ==
    [run |-> r, k |-> k, raises |-> iterargs[r][k], backurl |-> 0]

\* the (func, args) message of the k-th iteration, its Monitor carrying
\* receiver.true_end_point
TaskOf(r, k) ==
    [run |-> r, k |-> k, raises |-> iterargs[r][k], backurl |-> rport[r]]

\* one iteration of the sending loop
RunSend(r) ==
    /\ runpc[r] = "sending"
    /\ nsent[r] < Len(iterargs[r])
    /\ taskIn' = Append(taskIn, TaskOf(r, nsent[r] + 1))
    /\ nsent' = [nsent EXCEPT ![r] = @ + 1]
    /\ UNCHANGED << host_cores, mvars, cvars, pvars, wvars, streamer, taskOut,
                    runpc, iterargs, rport, announced, got, inbox, executed >>

\* a variant that yields the count from inside the sending loop
RunYieldN_early(r) ==
    /\ runpc[r] = "sending"
    /\ nsent[r] >= 1 \/ Len(iterargs[r]) = 0
    /\ announced' = [announced EXCEPT ![r] = nsent[r]]
    /\ runpc' = [runpc EXCEPT ![r] = "collect"]
    /\ UNCHANGED << host_cores, mvars, cvars, pvars, wvars, svars,
                    iterargs, rport, nsent, got, inbox, executed >>

\* yield n
RunYieldN(r) ==
    /\ runpc[r] = "sending"
    /\ nsent[r] = Len(iterargs[r])
    /\ announced' = [announced EXCEPT ![r] = nsent[r]]
    /\ runpc' = [runpc EXCEPT ![r] = "collect"]
    /\ UNCHANGED << host_cores, mvars, cvars, pvars, wvars, svars,
                    iterargs, rport, nsent, got, inbox, executed >>

\* a variant that takes results while it is still sending
RunRecv_eager(r) ==
    /\ runpc[r] \in {"sending", "collect"}
    /\ inbox[rport[r]] # << >>
    /\ got' = [got EXCEPT ![r] = Append(@, Head(inbox[rport[r]]))]
    /\ inbox' = [inbox EXCEPT ![rport[r]] = Tail(@)]
    /\ UNCHANGED << host_cores, mvars, cvars, pvars, wvars, svars,
                    runpc, iterargs, rport, nsent, announced, executed >>

\* a variant that yields the newest message waiting at the reply endpoint
RunRecv_last(r) ==
    /\ runpc[r] = "collect"
    /\ Len(got[r]) < nsent[r]
    /\ inbox[rport[r]] # << >>
    /\ LET q == inbox[rport[r]] IN
         /\ got' = [got EXCEPT ![r] = Append(@, q[Len(q)])]
         /\ inbox' = [inbox EXCEPT ![rport[r]] = SubSeq(q, 1, Len(q) - 1)]
    /\ UNCHANGED << host_cores, mvars, cvars, pvars, wvars, svars,
                    runpc, iterargs, rport, nsent, announced, executed >>

\* one iteration of "for _ in range(n)": a blocking receive and a yield
RunRecv(r) ==
    /\ runpc[r] = "collect"
    /\ Len(got[r]) < nsent[r]
    /\ inbox[rport[r]] # << >>
    /\ got' = [got EXCEPT ![r] = Append(@, Head(inbox[rport[r]]))]
    /\ inbox' = [inbox EXCEPT ![rport[r]] = Tail(@)]
    /\ UNCHANGED << host_cores, mvars, cvars, pvars, wvars, svars,
                    runpc, iterargs, rport, nsent, announced, executed >>

\* a variant that closes both sockets after the first result
RunFinish_first(r) ==
    /\ runpc[r] = "collect"
    /\ Len(got[r]) >= 1 \/ nsent[r] = 0
    /\ runpc' = [runpc EXCEPT ![r] = "done"]
    /\ rport' = [rport EXCEPT ![r] = 0]
    /\ UNCHANGED << host_cores, mvars, cvars, pvars, wvars, svars,
                    iterargs, nsent, announced, got, inbox, executed >>

\* a variant whose range is one short
RunFinish_early(r) ==
    /\ runpc[r] = "collect"
    /\ Len(got[r]) >= nsent[r] - 1
    /\ runpc' = [runpc EXCEPT ![r] = "done"]
    /\ rport' = [rport EXCEPT ![r] = 0]
    /\ UNCHANGED << host_cores, mvars, cvars, pvars, wvars, svars,
                    iterargs, nsent, announced, got, inbox, executed >>

\* a variant that gives up when nothing is waiting at the reply endpoint
RunFinish_timeout(r) ==
    /\ runpc[r] = "collect"
    /\ Len(got[r]) = nsent[r] \/ inbox[rport[r]] = << >>
    /\ runpc' = [runpc EXCEPT ![r] = "done"]
    /\ rport' = [rport EXCEPT ![r] = 0]
    /\ UNCHANGED << host_cores, mvars, cvars, pvars, wvars, svars,
                    iterargs, nsent, announced, got, inbox, executed >>

\* range(n) is exhausted: the generator ends and the with statement closes
\* both sockets
RunFinish(r) ==
    /\ runpc[r] = "collect"
    /\ Len(got[r]) = nsent[r]
    /\ runpc' = [runpc EXCEPT ![r] = "done"]
    /\ rport' = [rport EXCEPT ![r] = 0]
    /\ UNCHANGED << host_cores, mvars, cvars, pvars, wvars, svars,
                    iterargs, nsent, announced, got, inbox, executed >>

\* ---------------------------------------------------------------- worker
\* parallel.safely_call: the outcome of the callable, a raised exception
\* captured into the result
SafelyCall(t) == [run |-> t.run, k |-> t.k, ok |-> ~t.raises]

\* a variant whose worker receives the next message while it still holds
\* the previous one
WorkerPull_greedy(w) ==
    /\ wstate[w] \in {"idle", "busy"}
    /\ taskOut # << >>
    /\ wtask' = [wtask EXCEPT ![w] = Head(taskOut)]
    /\ taskOut' = Tail(taskOut)
    /\ wstate' = [wstate EXCEPT ![w] = "busy"]
    /\ UNCHANGED << host_cores, mvars, cvars, pvars, wsig, wheld, streamer, taskIn,
                    rvars, inbox, executed >>

\* a variant whose receive leaves the message in the queue
WorkerPull_peek(w) ==
    /\ wstate[w] = "idle"
    /\ taskOut # << >>
    /\ wtask' = [wtask EXCEPT ![w] = Head(taskOut)]
    /\ wstate' = [wstate EXCEPT ![w] = "busy"]
    /\ UNCHANGED << host_cores, mvars, cvars, pvars, wsig, wheld, svars,
                    rvars, inbox, executed >>

\* the worker's blocking iteration on its PULL socket yields a message
WorkerPull(w) ==
    /\ wstate[w] = "idle"
    /\ taskOut # << >>
    /\ wtask' = [wtask EXCEPT ![w] = Head(taskOut)]
    /\ taskOut' = Tail(taskOut)
    /\ wstate' = [wstate EXCEPT ![w] = "busy"]
    /\ UNCHANGED << host_cores, mvars, cvars, pvars, wsig, wheld, streamer, taskIn,
                    rvars, inbox, executed >>

\* a variant that calls the task unprotected: a raising task ends the worker
WorkerSend_unsafe(w) ==
    /\ wstate[w] = "busy"
    /\ IF wtask[w].raises
       THEN /\ wstate' = [wstate EXCEPT ![w] = "dead"]
            /\ UNCHANGED inbox
       ELSE /\ wstate' = [wstate EXCEPT ![w] = "idle"]
            /\ inbox' = [inbox EXCEPT ![wtask[w].backurl] = Append(@, SafelyCall(wtask[w]))]
    /\ executed' = executed \cup { << w, wtask[w].run, wtask[w].k >> }
    /\ wtask' = [wtask EXCEPT ![w] = NoTask]
    /\ UNCHANGED << host_cores, mvars, cvars, pvars, wsig, wheld, svars, rvars >>

\* a variant that pushes the result of every task twice
WorkerSend_twice(w) ==
    /\ wstate[w] = "busy"
    /\ inbox' = [inbox EXCEPT ![wtask[w].backurl] =
                    Append(Append(@, SafelyCall(wtask[w])), SafelyCall(wtask[w]))]
    /\ executed' = executed \cup { << w, wtask[w].run, wtask[w].k >> }
    /\ wstate' = [wstate EXCEPT ![w] = "idle"]
    /\ wtask' = [wtask EXCEPT ![w] = NoTask]
    /\ UNCHANGED << host_cores, mvars, cvars, pvars, wsig, wheld, svars, rvars >>

\* a variant that pushes every result to the reply endpoint bound first
WorkerSend_oneport(w) ==
    /\ wstate[w] = "busy"
    /\ LET q == CHOOSE b \in BoundPorts \cup {wtask[w].backurl} :
                    \A c \in BoundPorts \cup {wtask[w].backurl} : b <= c
       IN  inbox' = [inbox EXCEPT ![q] = Append(@, SafelyCall(wtask[w]))]
    /\ executed' = executed \cup { << w, wtask[w].run, wtask[w].k >> }
    /\ wstate' = [wstate EXCEPT ![w] = "idle"]
    /\ wtask' = [wtask EXCEPT ![w] = NoTask]
    /\ UNCHANGED << host_cores, mvars, cvars, pvars, wsig, wheld, svars, rvars >>

\* the body of the worker loop: call the task and push its result to the
\* backurl of its Monitor, then go back to the receive
WorkerSend(w) ==
    /\ wstate[w] = "busy"
    /\ inbox' = [inbox EXCEPT ![wtask[w].backurl] = Append(@, SafelyCall(wtask[w]))]
    /\ executed' = executed \cup { << w, wtask[w].run, wtask[w].k >> }
    /\ wstate' = [wstate EXCEPT ![w] = "idle"]
    /\ wtask' = [wtask EXCEPT ![w] = NoTask]
    /\ UNCHANGED << host_cores, mvars, cvars, pvars, wsig, wheld, svars, rvars >>

\* ------------------------------------------------------ control plane spec
\* One master issues its calls one after the other; no task is submitted.
CtlMasters == {1}
CtlOps == {"start", "stop", "kill", "status", "getpid"}

NextCtl ==
    \/ \E m \in CtlMasters, op \in CtlOps : MasterCall(m, op)
    \/ \E m \in CtlMasters : StartStep(m)
    \/ \E m \in CtlMasters : StartReturn(m)
    \/ \E m \in CtlMasters, cmd \in {"stop", "kill"} : StopStep(m, cmd)
    \/ \E m \in CtlMasters, cmd \in {"stop", "kill"} : StopRecv(m, cmd)
    \/ \E m \in CtlMasters, cmd \in {"stop", "kill"} : StopReturn(m, cmd)
    \/ \E m \in CtlMasters : StatusStep(m)
    \/ \E m \in CtlMasters : StatusReturn(m)
    \/ \E m \in CtlMasters : GetpidSend(m)
    \/ \E m \in CtlMasters : GetpidRecv(m)
    \/ \E p \in Pools : PoolSpawn(p)
    \/ \E p \in Pools : PoolBind(p)
    \/ \E p \in Pools : PoolRecv(p)
    \/ \E p \in Pools : PoolSend(p)
    \/ \E p \in Pools : PoolExit(p)
    \/ \E w \in Workers : WorkerExit(w)

SpecCtl == Init /\ [][NextCtl]_vars

\* The operating system delivers a signal sent to a live process and lets a
\* process whose main function has returned end.
CtlFairness ==
    /\ \A p \in Pools : WF_vars(PoolExit(p))
    /\ \A w \in Workers : WF_vars(WorkerExit(w))

\* start() once, then any stop() and kill(): the life of the pools of one
\* cluster from launch to shutdown
NextShutdown ==
    \/ \E m \in CtlMasters : nops[m] = 0 /\ MasterCall(m, "start")
    \/ \E m \in CtlMasters, cmd \in {"stop", "kill"} : nops[m] >= 1 /\ MasterCall(m, cmd)
    \/ \E m \in CtlMasters : StartStep(m)
    \/ \E m \in CtlMasters : StartReturn(m)
    \/ \E m \in CtlMasters, cmd \in {"stop", "kill"} : StopStep(m, cmd)
    \/ \E m \in CtlMasters, cmd \in {"stop", "kill"} : StopRecv(m, cmd)
    \/ \E m \in CtlMasters, cmd \in {"stop", "kill"} : StopReturn(m, cmd)
    \/ \E p \in Pools : PoolSpawn(p)
    \/ \E p \in Pools : PoolBind(p)
    \/ \E p \in Pools : PoolRecv(p)
    \/ \E p \in Pools : PoolSend(p)
    \/ \E p \in Pools : PoolExit(p)
    \/ \E w \in Workers : WorkerExit(w)

SpecShutdown == Init /\ [][NextShutdown]_vars /\ CtlFairness

\* ------------------------------------------------------ raw client spec
\* Master 1 starts the pools once and then stops them or acts as a raw
\* control client that sends 'getpid' or a string that is no command.
NextRaw ==
    \/ \E m \in CtlMasters : nops[m] = 0 /\ MasterCall(m, "start")
    \/ \E m \in CtlMasters, op \in {"stop", "getpid", "raw"} :
         nops[m] >= 1 /\ MasterCall(m, op)
    \/ \E m \in CtlMasters : StartStep(m)
    \/ \E m \in CtlMasters : StartReturn(m)
    \/ \E m \in CtlMasters : StopStep(m, "stop")
    \/ \E m \in CtlMasters : StopRecv(m, "stop")
    \/ \E m \in CtlMasters : StopReturn(m, "stop")
    \/ \E m \in CtlMasters : GetpidSend(m)
    \/ \E m \in CtlMasters : GetpidRecv(m)
    \/ \E m \in CtlMasters : RawSend(m)
    \/ \E p \in Pools : PoolSpawn(p)
    \/ \E p \in Pools : PoolBind(p)
    \/ \E p \in Pools : PoolRecv(p)
    \/ \E p \in Pools : PoolSend(p)
    \/ \E p \in Pools : PoolSkip(p)
    \/ \E p \in Pools : PoolAbort(p)
    \/ \E p \in Pools : PoolExit(p)
    \/ \E w \in Workers : WorkerExit(w)

SpecRaw == Init /\ [][NextRaw]_vars

\* --------------------------------------------------------- the whole system
Next ==
    \/ \E m \in Masters, op \in CtlOps : MasterCall(m, op)
    \/ \E m \in Masters : StartStep(m)
    \/ \E m \in Masters : StartReturn(m)
    \/ \E m \in Masters, cmd \in {"stop", "kill"} : StopStep(m, cmd)
    \/ \E m \in Masters, cmd \in {"stop", "kill"} : StopRecv(m, cmd)
    \/ \E m \in Masters, cmd \in {"stop", "kill"} : StopReturn(m, cmd)
    \/ \E m \in Masters : StatusStep(m)
    \/ \E m \in Masters : StatusReturn(m)
    \/ \E m \in Masters : GetpidSend(m)
    \/ \E m \in Masters : GetpidRecv(m)
    \/ \E p \in Pools : PoolSpawn(p)
    \/ \E p \in Pools : PoolBind(p)
    \/ \E p \in Pools : PoolRecv(p)
    \/ \E p \in Pools : PoolSend(p)
    \/ \E p \in Pools : PoolExit(p)
    \/ \E w \in Workers : WorkerExit(w)
    \/ \E w \in Workers : WorkerPull(w)
    \/ \E w \in Workers : WorkerSend(w)
    \/ StreamerStart
    \/ StreamerRelay
    \/ StreamerStop
    \/ \E r \in Runs : RunBind(r)
    \/ \E r \in Runs : RunSend(r)
    \/ \E r \in Runs : RunYieldN(r)
    \/ \E r \in Runs : RunRecv(r)
    \/ \E r \in Runs : RunFinish(r)

Spec == Init /\ [][Next]_vars

\* ---------------------------------------------------------- task plane spec
\* One master starts the pools once, the streamer relays and, once the
\* pools are up, one run submits; no process is stopped, killed or
\* interrupted.
TaskRuns == {1}

PoolsUp ==
    /\ \A m \in CtlMasters : mpc[m] = "idle" /\ nops[m] = 1
    /\ \A p \in Pools : pstate[p] \in {"none", "loop"}

NextTasks ==
    \/ \E m \in CtlMasters : nops[m] = 0 /\ MasterCall(m, "start")
    \/ \E m \in CtlMasters : StartStep(m)
    \/ \E m \in CtlMasters : StartReturn(m)
    \/ \E p \in Pools : PoolSpawn(p)
    \/ \E p \in Pools : PoolBind(p)
    \/ StreamerStart
    \/ StreamerRelay
    \/ \E r \in TaskRuns : PoolsUp /\ RunBind(r)
    \/ \E r \in TaskRuns : RunSend(r)
    \/ \E r \in TaskRuns : RunYieldN(r)
    \/ \E r \in TaskRuns : RunRecv(r)
    \/ \E r \in TaskRuns : RunFinish(r)
    \/ \E w \in Workers : WorkerPull(w)
    \/ \E w \in Workers : WorkerSend(w)

\* Workers, the streamer and the submitter are processes of their own that
\* the operating system keeps scheduling; the caller keeps consuming the
\* generator.
TaskFairness ==
    /\ WF_vars(StreamerRelay)
    /\ \A r \in TaskRuns :
         /\ WF_vars(RunSend(r))
         /\ WF_vars(RunYieldN(r))
         /\ WF_vars(RunRecv(r))
         /\ WF_vars(RunFinish(r))
    /\ \A w \in Workers : WF_vars(WorkerPull(w)) /\ WF_vars(WorkerSend(w))

SpecTasks == Init /\ [][NextTasks]_vars /\ TaskFairness

\* ----------------------------------------------------------- status spec
\* One master calls start(), stop() and status, with or without a host
\* argument, configured or not, while the pools come and go; a probe may
\* fail to resolve the name of its host.
StatusArgs == Hosts \cup {0}

NextStatus ==
    \/ \E m \in CtlMasters, op \in {"start", "stop"} : MasterCall(m, op)
    \/ \E m \in CtlMasters, h \in StatusArgs : MasterCallWith(m, "status", h)
    \/ \E m \in CtlMasters : StartStep(m)
    \/ \E m \in CtlMasters : StartReturn(m)
    \/ \E m \in CtlMasters : StopStep(m, "stop")
    \/ \E m \in CtlMasters : StopRecv(m, "stop")
    \/ \E m \in CtlMasters : StopReturn(m, "stop")
    \/ \E m \in CtlMasters : StatusStep(m)
    \/ \E m \in CtlMasters : StatusRaise(m)
    \/ \E m \in CtlMasters : StatusReturn(m)
    \/ \E p \in Pools : PoolSpawn(p)
    \/ \E p \in Pools : PoolBind(p)
    \/ \E p \in Pools : PoolRecv(p)
    \/ \E p \in Pools : PoolSend(p)
    \/ \E p \in Pools : PoolExit(p)
    \/ \E w \in Workers : WorkerExit(w)

SpecStatus == Init /\ [][NextStatus]_vars

\* --------------------------------------------------------- streamer spec
\* As the task plane, with a streamer that can be interrupted or hit by a
\* transport error at any moment; nothing is assumed about scheduling.
NextStream ==
    \/ \E m \in CtlMasters : nops[m] = 0 /\ MasterCall(m, "start")
    \/ \E m \in CtlMasters : StartStep(m)
    \/ \E m \in CtlMasters : StartReturn(m)
    \/ \E p \in Pools : PoolSpawn(p)
    \/ \E p \in Pools : PoolBind(p)
    \/ PoolsUp /\ StreamerStart
    \/ StreamerRelay
    \/ StreamerStop
    \/ \E r \in TaskRuns : PoolsUp /\ streamer # "new" /\ RunBind(r)
    \/ \E r \in TaskRuns : RunSend(r)
    \/ \E r \in TaskRuns : RunYieldN(r)
    \/ \E r \in TaskRuns : RunRecv(r)
    \/ \E r \in TaskRuns : RunFinish(r)
    \/ \E w \in Workers : WorkerPull(w)
    \/ \E w \in Workers : WorkerSend(w)

SpecStream == Init /\ [][NextStream]_vars

\* ------------------------------------------------------ two masters spec
\* Master 1 starts the pools once; when they are up, both masters send
\* getpid, stop and kill at the same time, master 2 two calls fewer.
NextDuo ==
    \/ \E m \in CtlMasters : nops[m] = 0 /\ MasterCall(m, "start")
    \/ \E m \in Masters, op \in {"getpid", "stop", "kill"} :
         /\ \A c \in CtlMasters : nops[c] >= 1
         /\ \A p \in Pools : pstate[p] # "spawning"
         /\ nops[m] < MaxOps - (IF m \in CtlMasters THEN 0 ELSE 2)
         /\ MasterCall(m, op)
    \/ \E m \in CtlMasters : StartStep(m)
    \/ \E m \in CtlMasters : StartReturn(m)
    \/ \E m \in Masters, cmd \in {"stop", "kill"} : StopStep(m, cmd)
    \/ \E m \in Masters, cmd \in {"stop", "kill"} : StopRecv(m, cmd)
    \/ \E m \in Masters, cmd \in {"stop", "kill"} : StopReturn(m, cmd)
    \/ \E m \in Masters : GetpidSend(m)
    \/ \E m \in Masters : GetpidRecv(m)
    \/ \E p \in Pools : PoolSpawn(p)
    \/ \E p \in Pools : PoolBind(p)
    \/ \E p \in Pools : PoolRecv(p)
    \/ \E p \in Pools : PoolSend(p)
    \/ \E p \in Pools : PoolExit(p)
    \/ \E w \in Workers : WorkerExit(w)

SpecDuo == Init /\ [][NextDuo]_vars

\* Every process keeps running: a master goes on with its loop and takes
\* a reply that has arrived, a pool goes on with its start(), and the
\* operating system delivers signals and ends processes.
DuoFairness ==
    /\ \A m \in Masters :
         /\ WF_vars(StartStep(m)) /\ WF_vars(StartReturn(m))
         /\ WF_vars(GetpidSend(m)) /\ WF_vars(GetpidRecv(m))
         /\ \A cmd \in {"stop", "kill"} :
              /\ WF_vars(StopStep(m, cmd))
              /\ WF_vars(StopRecv(m, cmd))
              /\ WF_vars(StopReturn(m, cmd))
    /\ \A p \in Pools :
         /\ WF_vars(PoolSpawn(p)) /\ WF_vars(PoolBind(p))
         /\ WF_vars(PoolRecv(p)) /\ WF_vars(PoolSend(p))
         /\ WF_vars(PoolExit(p))
    /\ \A w \in Workers : WF_vars(WorkerExit(w))

SpecDuoFair == Init /\ [][NextDuo]_vars /\ DuoFairness

\* ------------------------------------------------------- two runs spec
\* As the task plane, on the pool of a single host with two cores, with
\* two runs that submit at the same time through the one streamer; run 1
\* has between one and MaxTasks - 1 tasks and run 2 has one, none of which
\* raises.
PairRuns == {1, 2}

NextPair ==
    \/ \E m \in CtlMasters :
         nops[m] = 0 /\ Len(host_cores) = 1 /\ MasterCall(m, "start")
    \/ \E m \in CtlMasters : StartStep(m)
    \/ \E m \in CtlMasters : StartReturn(m)
    \/ \E p \in Pools : PoolSpawn(p)
    \/ \E p \in Pools : PoolBind(p)
    \/ PoolsUp /\ StreamerStart
    \/ StreamerRelay
    \/ \E r \in PairRuns :
         /\ PoolsUp /\ streamer = "running"
         /\ RunBind(r)
         /\ \A k \in 1..Len(iterargs'[r]) : ~iterargs'[r][k]
         /\ Len(iterargs'[r]) \in 1..(IF r = 1 THEN MaxTasks - 1 ELSE 1)
    \/ \E r \in PairRuns : RunSend(r)
    \/ \E r \in PairRuns : RunYieldN(r)
    \/ \E r \in PairRuns : RunRecv(r)
    \/ \E r \in PairRuns : RunFinish(r)
    \/ \E w \in Workers : WorkerPull(w)
    \/ \E w \in Workers : WorkerSend(w)

PairFairness ==
    /\ WF_vars(StreamerRelay)
    /\ \A r \in PairRuns :
         /\ WF_vars(RunSend(r))
         /\ WF_vars(RunYieldN(r))
         /\ WF_vars(RunRecv(r))
         /\ WF_vars(RunFinish(r))
    /\ \A w \in Workers : WF_vars(WorkerPull(w)) /\ WF_vars(WorkerSend(w))

SpecPair == Init /\ [][NextPair]_vars /\ PairFairness

\* ------------------------------------------------------- pool life spec
\* One master starts the pool of a single host with two cores and then
\* stops or kills it while one run
\* of fewer than MaxTasks tasks that do not raise is under way; workers may
\* also crash.  The
\* operating system delivers signals and ends processes.
NextLife ==
    \/ \E m \in CtlMasters :
         nops[m] = 0 /\ Len(host_cores) = 1 /\ MasterCall(m, "start")
    \/ \E m \in CtlMasters, cmd \in {"stop", "kill"} : nops[m] = 1 /\ MasterCall(m, cmd)
    \/ \E m \in CtlMasters : StartStep(m)
    \/ \E m \in CtlMasters : StartReturn(m)
    \/ \E m \in CtlMasters, cmd \in {"stop", "kill"} : StopStep(m, cmd)
    \/ \E m \in CtlMasters, cmd \in {"stop", "kill"} : StopRecv(m, cmd)
    \/ \E m \in CtlMasters, cmd \in {"stop", "kill"} : StopReturn(m, cmd)
    \/ \E p \in Pools : PoolSpawn(p)
    \/ \E p \in Pools : PoolBind(p)
    \/ \E p \in Pools : PoolRecv(p)
    \/ \E p \in Pools : PoolSend(p)
    \/ \E p \in Pools : PoolExit(p)
    \/ \E w \in Workers : WorkerExit(w)
    \/ \E w \in Workers : WorkerCrash(w)
    \/ StreamerStart
    \/ StreamerRelay
    \/ \E r \in TaskRuns :
         /\ PoolsUp /\ streamer = "running"
         /\ RunBind(r)
         /\ \A k \in 1..Len(iterargs'[r]) : ~iterargs'[r][k]
         /\ Len(iterargs'[r]) \in 1..(MaxTasks - 1)
    \/ \E r \in TaskRuns : RunSend(r)
    \/ \E r \in TaskRuns : RunYieldN(r)
    \/ \E r \in TaskRuns : RunRecv(r)
    \/ \E r \in TaskRuns : RunFinish(r)
    \/ \E w \in Workers : WorkerPull(w)
    \/ \E w \in Workers : WorkerSend(w)

SpecLife == Init /\ [][NextLife]_vars

\* ================================================================ claims
Live(w) == wstate[w] \in {"idle", "busy"}

\* the results of task k of run r, wherever they are
ResultsOf(r, k) ==
    LET InSeq(sq) == Cardinality({ i \in 1..Len(sq) : sq[i].run = r /\ sq[i].k = k })
    IN  InSeq(inbox[1]) + InSeq(inbox[2]) + InSeq(got[1]) + InSeq(got[2])

\* C1: for a run over n argument tuples, with a live worker and a running
\* streamer and no process death, the first value produced is n, and the
\* run eventually completes having received exactly n results.
C1_CountThenAllResults ==
    /\ [](\A r \in TaskRuns :
            /\ announced[r] # -1 => announced[r] = Len(iterargs[r])
            /\ Len(got[r]) > 0 => announced[r] = Len(iterargs[r])
            /\ Len(got[r]) <= Len(iterargs[r]))
    /\ \A r \in TaskRuns :
         (runpc[r] = "sending" /\ streamer = "running" /\ \E w \in Workers : Live(w))
            ~> (runpc[r] = "done" /\ Len(got[r]) = Len(iterargs[r]))

\* a run of three tasks has announced 3 and completed with three results
C1_Witness ==
    /\ runpc[1] = "done"
    /\ announced[1] = 3
    /\ Len(got[1]) = 3

\* C2: with W workers and T > W tasks, no task is ever received or executed
\* by two workers, and the results of all T tasks arrive at the submitter,
\* one per task.
C2_EachTaskOneWorker ==
    /\ [](\A r \in TaskRuns :
            /\ \A k \in 1..Len(iterargs[r]) :
                 /\ Cardinality({ w \in Workers : << w, r, k >> \in executed }) <= 1
                 /\ Cardinality({ w \in Workers : wtask[w].run = r /\ wtask[w].k = k }) <= 1
                 /\ \A w \in Workers :
                      wtask[w].run = r /\ wtask[w].k = k
                         => \A v \in Workers : << v, r, k >> \notin executed
                 /\ ResultsOf(r, k) <= 1
            /\ runpc[r] = "done" =>
                 \A k \in 1..Len(iterargs[r]) :
                    /\ \E w \in Workers : << w, r, k >> \in executed
                    /\ \E i \in 1..Len(got[r]) : got[r][i].run = r /\ got[r][i].k = k)
    /\ \A r \in TaskRuns :
         (/\ runpc[r] = "sending" /\ streamer = "running"
          /\ Len(iterargs[r]) > Cardinality({ w \in Workers : Live(w) }))
            ~> (\A k \in 1..Len(iterargs[r]) :
                  \E i \in 1..Len(got[r]) : got[r][i].run = r /\ got[r][i].k = k)

\* two workers have shared three tasks of a completed run
C2_Witness ==
    /\ runpc[1] = "done"
    /\ Len(iterargs[1]) = 3
    /\ Cardinality({ w \in Workers : Live(w) }) = 2
    /\ Cardinality({ w \in Workers : \E k \in 1..3 : << w, 1, k >> \in executed }) = 2

\* C3: a worker that runs a raising task pushes exactly one result tagged
\* as a failure to the task's backurl and returns to its receive, alive;
\* the failure is collected and counted like any other result.
C3_FailureIsAResult ==
    /\ [][\A w \in Workers :
            (wstate[w] = "busy" /\ wtask[w].raises /\ wstate'[w] # "busy")
               => /\ wstate'[w] = "idle"
                  /\ inbox'[wtask[w].backurl] =
                        Append(inbox[wtask[w].backurl],
                               [run |-> wtask[w].run, k |-> wtask[w].k, ok |-> FALSE])
                  /\ \A q \in Ports \ {wtask[w].backurl} : inbox'[q] = inbox[q]]_vars
    /\ [](\A r \in TaskRuns :
            /\ \A k \in 1..Len(iterargs[r]) : ResultsOf(r, k) <= 1
            /\ \A i \in 1..Len(got[r]) :
                 got[r][i].ok = ~iterargs[r][got[r][i].k]
            /\ runpc[r] = "done" =>
                 Len(got[r]) = announced[r] /\ announced[r] = Len(iterargs[r]))

\* one worker ran a raising task and then a later task that succeeded, and
\* the run collected both results
C3_Witness ==
    /\ runpc[1] = "done"
    /\ \E w \in Workers, k1, k2 \in 1..Len(iterargs[1]) :
         /\ k1 < k2
         /\ iterargs[1][k1] /\ ~iterargs[1][k2]
         /\ << w, 1, k1 >> \in executed /\ << w, 1, k2 >> \in executed
         /\ \E i, j \in 1..Len(got[1]) :
              /\ got[1][i] = [run |-> 1, k |-> k1, ok |-> FALSE]
              /\ got[1][j] = [run |-> 1, k |-> k2, ok |-> TRUE]

\* ---------------------------------------------------- control plane claims
Positions == 1..Len(host_cores)

\* master m has just taken a step of its own
Stepped(m) ==
    \/ mpc'[m] # mpc[m]
    \/ midx'[m] # midx[m]
    \/ mout'[m] # mout[m]

\* C4: two start() calls in a row launch at most one pool per host: no
\* position is launched by the first call and again by the second.
C4_StartTwiceOneLaunch ==
    \A m \in CtlMasters :
       (mop[m] = "start" /\ prevOp[m] = "start")
          => \A i \in Positions : ~(prevOut[m][i] = "launch" /\ mout[m][i] = "launch")

\* C5: start(), stop() and kill() always return their status string,
\* whatever the hosts' states; none of them ends in an error.
C5_DefiniteStatusString ==
    \A m \in CtlMasters :
       (mpc[m] = "idle" /\ mop[m] \in {"start", "stop", "kill"})
          => mret[m].kind \in {"started", "stopped", "killed"}

\* C6: an iteration of stop() or kill() at a host probed not-running sends
\* no request, touches no pool and no worker, records the skip and moves to
\* the next host; the call returns its string with every host processed.
C6_StopSkipsNotRunning ==
    /\ [][\A m \in CtlMasters, cmd \in {"stop", "kill"} :
            (/\ InLoop(m, cmd)
             /\ Probe(host_cores[midx[m]].host) = "not-running"
             /\ Stepped(m))
               => /\ req' = req /\ rep' = rep
                  /\ pvars' = pvars /\ wvars' = wvars
                  /\ mout'[m][midx[m]] = "skip"
                  /\ midx'[m] = midx[m] + 1
                  /\ mpc'[m] = "loop"
                  /\ mret'[m] = mret[m]]_vars
    /\ [](\A m \in CtlMasters :
            (mpc[m] = "idle" /\ mop[m] \in {"stop", "kill"})
               => /\ mret[m].kind = StopValue(mop[m])
                  /\ \A i \in Positions : mout[m][i] \in {"skip", "replied"})

\* stop() has returned after skipping its first host, which was not
\* running, and stopping its second
C6_Witness ==
    /\ Len(host_cores) = 2
    /\ mpc[1] = "idle" /\ mop[1] = "stop"
    /\ mret[1].kind = "stopped"
    /\ mout[1][1] = "skip" /\ mout[1][2] = "replied"

\* C7: every reply to getpid is the process id of the pool supervisor that
\* sent it, so that repeated requests get the same reply; answering one
\* leaves the pool in its control loop and signals no worker.
C7_GetpidSamePid ==
    /\ [](\A m \in CtlMasters :
            /\ rep[m].kind = "pid" => rep[m].val = OsPid(rep[m].from, 0)
            /\ (/\ mop[m] = "getpid" /\ prevOp[m] = "getpid"
                /\ mret[m].kind = "pid" /\ prevRet[m].kind = "pid"
                /\ \E i \in Positions : mout[m][i] = "replied" /\ prevOut[m][i] = "replied")
                  => mret[m].val = prevRet[m].val)
    /\ [][\A p \in Pools :
            /\ (pstate[p] = "loop" /\ pstate'[p] = "reply" /\ pcur'[p].cmd = "getpid")
                  => wvars' = wvars /\ ctrlBound' = ctrlBound
            /\ (pstate[p] = "reply" /\ pcur[p].cmd = "getpid" /\ pstate'[p] # "reply")
                  => /\ pstate'[p] = "loop"
                     /\ wvars' = wvars /\ ctrlBound' = ctrlBound]_vars

\* a pool has answered two getpid requests in a row and is still looping
C7_Witness ==
    /\ mop[1] = "getpid" /\ prevOp[1] = "getpid"
    /\ mret[1].kind = "pid" /\ prevRet[1] = mret[1]
    /\ \E p \in Pools : pstate[p] = "loop" /\ mret[1].val = OsPid(p, 0)

Honored(p) == pstate[p] \in {"done", "exited"}

\* C8: once a pool has replied to stop or kill it reads no further request
\* and sends no further reply.
C8_StopKillTerminal ==
    [][\A p \in Pools :
         /\ (pstate[p] = "reply" /\ pcur[p].cmd \in {"stop", "kill"} /\ pstate'[p] # "reply")
               => Honored(p)'
         /\ Honored(p)
               => /\ Honored(p)'
                  /\ pcur'[p] = NoCur
                  /\ \A m \in Masters : rep'[m] # rep[m] => rep'[m].from # p]_vars

\* a request waits at the control endpoint of a pool that has honored stop
C8_Witness ==
    \E p \in Pools, m \in CtlMasters :
       /\ Honored(p)
       /\ req[m].h = phost[p]
       /\ req[m].cmd \in {"getpid", "stop", "kill"}
       /\ \A q \in Pools : q # p => phost[q] # phost[p]

\* C9: the status() call made right after a stop() or kill() that got a
\* pool's confirmation reports that host not-running.
C9_StoppedThenNotRunning ==
    \A m \in CtlMasters :
       (mop[m] = "status" /\ prevOp[m] \in {"stop", "kill"})
          => \A i \in Positions :
                (prevOut[m][i] = "replied" /\ mout[m][i] # "none")
                   => mout[m][i] = "not-running"

\* C10: the status() call made right after a start() that launched a pool
\* for a host reports that host running.
C10_StartedThenRunning ==
    \A m \in CtlMasters :
       (mop[m] = "status" /\ prevOp[m] = "start")
          => \A i \in Positions :
                (prevOut[m][i] = "launch" /\ mout[m][i] # "none")
                   => mout[m][i] = "running"

\* ------------------------------------------------- claims on pools and runs
\* the workers a pool has spawned
Own(p) == { w \in Workers : w[1] = p /\ w[2] <= pworkers[p] }

InSeqTasks(sq, r, k) == \E i \in 1..Len(sq) : sq[i].run = r /\ sq[i].k = k

\* the tasks a run has sent of which neither the task nor a result is left
Lost(r) ==
    { k \in 1..nsent[r] :
        /\ ~InSeqTasks(taskIn, r, k)
        /\ ~InSeqTasks(taskOut, r, k)
        /\ \A w \in Workers : ~(wtask[w].run = r /\ wtask[w].k = k)
        /\ ResultsOf(r, k) = 0 }

\* C11: a worker that was executing a task when its pool honored stop does
\* not exit before it has pushed that task's result.
C11_InFlightTaskCompleted ==
    [][\A w \in Workers :
         (/\ wsig[w] = "INT"
          /\ wheld[w] # NoTask
          /\ wstate[w] = "busy" /\ wtask[w] = wheld[w])
            => wstate'[w] # "dead"]_vars

\* C12: a run yields a result only while it has yielded fewer than the n
\* tasks it sent, and ends only when it has yielded exactly n, the count it
\* announced.
C12_ExactlyNResults ==
    /\ [](\A r \in TaskRuns :
            /\ Len(got[r]) <= nsent[r]
            /\ runpc[r] = "done" => Len(got[r]) = nsent[r] /\ announced[r] = nsent[r])
    /\ [][\A r \in TaskRuns :
            /\ got'[r] # got[r]
                  => Len(got[r]) < nsent[r] /\ Len(got'[r]) = Len(got[r]) + 1
            /\ (runpc[r] = "collect" /\ runpc'[r] = "done") => Len(got[r]) = nsent[r]
            /\ runpc[r] \in {"collect", "done"} => nsent'[r] = nsent[r]]_vars

\* a run has yielded two of the three results it waits for
C12_Witness ==
    /\ runpc[1] = "collect"
    /\ nsent[1] = 3
    /\ Len(got[1]) = 2

\* C13: once a task of a run is lost with the worker that held it, the run
\* never ends: it stays short of n results, in its sending loop or blocked
\* in result collection, and the loss is never made good.
C13_StarvedRunBlocks ==
    /\ [](\A r \in TaskRuns :
            Lost(r) # {}
               => /\ runpc[r] \in {"sending", "collect"}
                  /\ Len(got[r]) < Len(iterargs[r]))
    /\ [][\A r \in TaskRuns : Lost(r) \subseteq Lost(r)']_vars

\* a worker died holding a task; the run has collected every other result
\* and waits at an empty reply endpoint
C13_Witness ==
    /\ runpc[1] = "collect"
    /\ Cardinality(Lost(1)) = 1
    /\ nsent[1] = 2 /\ Len(got[1]) = 1
    /\ inbox[rport[1]] = << >>
    /\ \E w \in Workers : wstate[w] = "dead" /\ wheld[w].run = 1

TasksInFlight ==
    { taskIn[i] : i \in 1..Len(taskIn) }
       \cup { taskOut[i] : i \in 1..Len(taskOut) }
       \cup { wtask[w] : w \in { v \in Workers : wtask[v] # NoTask } }

\* C14: a run sends only while its reply endpoint is bound, and every task
\* pushed to the distribution endpoint carries that endpoint as backurl.
C14_BackurlBeforeSend ==
    /\ [](\A r \in TaskRuns : nsent[r] > 0 => runpc[r] # "new")
    /\ [](\A t \in TasksInFlight :
            /\ t.backurl # 0
            /\ runpc[t.run] # "done" => t.backurl = rport[t.run])
    /\ [][\A r \in TaskRuns :
            nsent'[r] > nsent[r]
               => /\ rport[r] # 0 /\ rport'[r] = rport[r]
                  /\ Len(taskIn') = Len(taskIn) + 1
                  /\ taskIn'[Len(taskIn')].backurl = rport[r]
                  /\ taskIn'[Len(taskIn')].run = r]_vars

\* a task relayed to the workers carries the bound reply endpoint of its
\* run, which is still sending
C14_Witness ==
    /\ runpc[1] = "sending"
    /\ taskOut # << >>
    /\ Head(taskOut).backurl = rport[1]
    /\ rport[1] # 0

\* C15: the count is produced only once the whole input has been sent, and
\* no result is taken from the reply endpoint before the count is produced.
C15_CountBeforeResults ==
    /\ [](\A r \in TaskRuns :
            /\ announced[r] # -1 => nsent[r] = Len(iterargs[r])
            /\ announced[r] = -1 => got[r] = << >>)
    /\ [][\A r \in TaskRuns :
            /\ announced'[r] # announced[r]
                  => /\ nsent[r] = Len(iterargs[r])
                     /\ got'[r] = << >>
                     /\ inbox' = inbox
            /\ got'[r] # got[r] => announced[r] = nsent[r]
            /\ (announced[r] = -1 /\ rport[r] # 0)
                  => Len(inbox'[rport[r]]) >= Len(inbox[rport[r]])]_vars

\* a result already waits at the reply endpoint of a run that is still
\* sending and has not produced its count
C15_Witness ==
    /\ runpc[1] = "sending"
    /\ announced[1] = -1
    /\ nsent[1] < Len(iterargs[1])
    /\ inbox[rport[1]] # << >>

\* C16: once its spawn loop is over a pool holds exactly num_workers
\* handles; it never spawns again, and a dead worker stays dead.
C16_WorkerCountFixed ==
    /\ [](\A p \in Pools :
            pstate[p] \notin {"none", "spawning"}
               => /\ pworkers[p] = pcores[p]
                  /\ Cardinality({ w \in Workers : w[1] = p /\ wstate[w] # "none" })
                        = pcores[p])
    /\ [][\A p \in Pools :
            pstate[p] \notin {"none", "spawning"}
               => /\ pworkers'[p] = pworkers[p]
                  /\ \A w \in Workers :
                       w[1] = p => /\ (wstate[w] = "none") = (wstate'[w] = "none")
                                   /\ wstate[w] = "dead" => wstate'[w] = "dead"]_vars

\* a pool in its control loop still holds two handles after one of its
\* workers has crashed
C16_Witness ==
    \E p \in Pools :
       /\ pstate[p] = "loop" /\ pworkers[p] = 2
       /\ wstate[<< p, 1 >>] = "dead" /\ wsig[<< p, 1 >>] = "none"
       /\ wstate[<< p, 2 >>] = "idle"

\* C17: a pool whose control bind has failed has no worker of its own
\* running.
C17_BindFailureAborts ==
    \A p \in Pools :
       pstate[p] = "bindfail" => \A w \in Workers : w[1] = p => ~Live(w)

SignalOf(kind) == IF kind = "stopped" THEN "INT" ELSE "TERM"

\* C18: when the reply to stop (kill) is ready and when it is sent, every
\* worker of the pool has been sent SIGINT (SIGTERM); the control loop
\* exits in the step that sends the reply, not before.
C18_SignalReplyExit ==
    /\ [](\A p \in Pools :
            (pstate[p] = "reply" /\ pcur[p].cmd \in {"stop", "kill"})
               => /\ Cardinality(Own(p)) = pcores[p]
                  /\ \A w \in Own(p) : wsig[w] = SignalOf(StopValue(pcur[p].cmd)))
    /\ [](\A m \in CtlMasters :
            rep[m].kind \in {"stopped", "killed"}
               => \A w \in Own(rep[m].from) : wsig[w] = SignalOf(rep[m].kind))
    /\ [][\A p \in Pools :
            (pstate'[p] = "done" /\ pstate[p] # "done")
               => /\ pstate[p] = "reply"
                  /\ rep'[pcur[p].m] = [kind |-> StopValue(pcur[p].cmd),
                                        val |-> phost[p], from |-> p]
                  /\ rep[pcur[p].m] = NoRep]_vars

\* a pool with two workers has signalled both with SIGTERM and is about to
\* send its reply to kill
C18_Witness ==
    \E p \in Pools :
       /\ pstate[p] = "reply" /\ pcur[p].cmd = "kill"
       /\ wsig[<< p, 1 >>] = "TERM" /\ wsig[<< p, 2 >>] = "TERM"

\* the supervisor process has ended: its main function has returned and
\* the children it waits for at exit are gone
Terminated(p) ==
    /\ pstate[p] = "exited"
    /\ \A w \in Own(p) : wstate[w] = "dead"

\* C19: after a pool has replied to stop or kill, all its workers
\* eventually exit and the supervisor process eventually terminates.
C19_PoolEventuallyGone ==
    \A p \in Pools : (pstate[p] = "done") ~> Terminated(p)

\* a pool with two workers has terminated
C19_Witness ==
    \E p \in Pools : Terminated(p) /\ pworkers[p] = 2

\* C20: at a host probed running, stop() (kill()) sends one 'stop' ('kill')
\* and blocks; it moves to the next host only with the confirmation of the
\* pool of that host in hand.
C20_OneCommandThenReply ==
    [][\A m \in CtlMasters, cmd \in {"stop", "kill"} :
         /\ (/\ InLoop(m, cmd)
             /\ Probe(host_cores[midx[m]].host) = "running"
             /\ Stepped(m))
               => /\ req[m] = NoReq
                  /\ req'[m] = [h |-> host_cores[midx[m]].host, cmd |-> cmd]
                  /\ mpc'[m] = "wait"
                  /\ midx'[m] = midx[m]
         /\ (mop[m] = cmd /\ mpc[m] = "wait")
               => /\ req'[m] \in {req[m], NoReq}
                  /\ (midx'[m] # midx[m] \/ mpc'[m] # "wait")
                        => /\ rep[m].kind = StopValue(cmd)
                           /\ phost[rep[m].from] = host_cores[midx[m]].host
                           /\ req[m] = NoReq
                           /\ midx'[m] = midx[m] + 1]_vars

\* kill() has returned after the pools of both hosts confirmed
C20_Witness ==
    /\ Len(host_cores) = 2
    /\ mpc[1] = "idle" /\ mop[1] = "kill"
    /\ mout[1][1] = "replied" /\ mout[1][2] = "replied"

\* the results a reply endpoint or a run holds, as the set of their positions
FromRun(sq, r) == { i \in 1..Len(sq) : sq[i].run = r }

\* C21: with two runs on one distribution endpoint and one set of workers,
\* every result is pushed to the backurl of its own task: a run finds at
\* its reply endpoint, and yields, only results of tasks it sent, and it
\* ends with one result for each of its own n tasks.
C21_ResultsToOwnRun ==
    /\ [](\A r \in PairRuns :
            /\ FromRun(got[r], r) = 1..Len(got[r])
            /\ rport[r] # 0 => FromRun(inbox[rport[r]], r) = 1..Len(inbox[rport[r]])
            /\ runpc[r] = "done"
                  => /\ Len(got[r]) = Len(iterargs[r])
                     /\ \A k \in 1..Len(iterargs[r]) : ResultsOf(r, k) = 1)
    /\ [][\A w \in Workers, q \in Ports :
            (wstate[w] = "busy" /\ wstate'[w] = "idle" /\ inbox'[q] # inbox[q])
               => q = wtask[w].backurl]_vars
    /\ \A r \in PairRuns : (runpc[r] = "sending") ~> (runpc[r] = "done")

\* both runs are collecting at endpoints of their own, a result waiting at
\* each
C21_Witness ==
    /\ runpc[1] = "collect" /\ runpc[2] = "collect"
    /\ rport[1] # rport[2]
    /\ inbox[rport[1]] # << >> /\ inbox[rport[2]] # << >>

\* the positions of a sequence of results that hold the result of task k
ResultsAt(sq, k) == { i \in 1..Len(sq) : sq[i].k = k }

\* C22: without process death, every result at the reply endpoint of a run
\* or yielded by it is the outcome of one of its tasks, no task has two
\* results, and a run that has ended has yielded, in some order, exactly
\* one result per task: a failure for a task that raises, a value otherwise.
C22_ResultsAreTheOutcomes ==
    \A r \in TaskRuns :
       /\ \A k \in 1..MaxTasks : ResultsOf(r, k) <= (IF k <= nsent[r] THEN 1 ELSE 0)
       /\ \A i \in 1..Len(got[r]) :
            /\ got[r][i].run = r
            /\ got[r][i].k \in 1..Len(iterargs[r])
            /\ got[r][i].ok = ~iterargs[r][got[r][i].k]
       /\ runpc[r] = "done"
             => /\ Len(got[r]) = Len(iterargs[r])
                /\ \A k \in 1..Len(iterargs[r]) :
                     Cardinality(ResultsAt(got[r], k)) = 1

\* a run of three tasks, the first of which raises, has ended with the
\* result of the second task yielded first and the failure of the first
\* yielded last
C22_Witness ==
    /\ runpc[1] = "done"
    /\ Len(got[1]) = 3
    /\ iterargs[1][1] /\ ~iterargs[1][2]
    /\ got[1][1].k = 2 /\ got[1][1].ok
    /\ got[1][3].k = 1 /\ ~got[1][3].ok

\* C23: a run pushes its tasks in the iteration order of its input, each
\* send adding the next element of the input at the tail of the
\* distribution queue; results join the reply endpoint at its tail and the
\* run yields them from its head, one at a time: in order of arrival.
C23_DispatchAndArrivalOrder ==
    [][\A r \in TaskRuns :
         /\ nsent'[r] # nsent[r]
               => /\ nsent'[r] = nsent[r] + 1
                  /\ taskIn' = Append(taskIn, [run |-> r, k |-> nsent[r] + 1,
                                               raises |-> iterargs[r][nsent[r] + 1],
                                               backurl |-> rport[r]])
         /\ got'[r] # got[r]
               => /\ got'[r] = Append(got[r], Head(inbox[rport[r]]))
                  /\ inbox'[rport[r]] = Tail(inbox[rport[r]])
         /\ (rport[r] # 0 /\ got'[r] = got[r] /\ inbox'[rport[r]] # inbox[rport[r]])
               => \E x \in { SafelyCall(wtask[w]) : w \in Workers } :
                     inbox'[rport[r]] = Append(inbox[rport[r]], x)]_vars

\* a run has yielded the result of its second task before the result of
\* its first, as they arrived, with a third result waiting
C23_Witness ==
    /\ runpc[1] = "collect"
    /\ Len(got[1]) = 2
    /\ got[1][1].k = 2 /\ got[1][2].k = 1
    /\ inbox[rport[1]] # << >>

\* C24: a worker holds a task exactly while it is busy; it takes a task
\* from the distribution queue only when it holds none, and the task it
\* holds leaves it only with the push of that task's result to its
\* backurl, after which the worker is ready for the next.
C24_OneTaskAtATime ==
    /\ [](\A w \in Workers : (wstate[w] = "busy") = (wtask[w] # NoTask))
    /\ [][\A w \in Workers :
            wtask'[w] # wtask[w]
               => \/ /\ wtask[w] = NoTask /\ wstate[w] = "idle"
                     /\ taskOut # << >>
                     /\ wtask'[w] = Head(taskOut) /\ taskOut' = Tail(taskOut)
                  \/ /\ wtask'[w] = NoTask /\ wstate'[w] = "idle"
                     /\ Len(inbox'[wtask[w].backurl]) = Len(inbox[wtask[w].backurl]) + 1
                     /\ LET q == inbox'[wtask[w].backurl] IN
                          q[Len(q)].run = wtask[w].run /\ q[Len(q)].k = wtask[w].k
                     /\ taskOut' = taskOut]_vars

\* a worker that has pushed the result of one task holds the next, while
\* a further task waits in the distribution queue
C24_Witness ==
    \E w \in Workers :
       /\ wstate[w] = "busy"
       /\ \E k \in 1..MaxTasks : k # wtask[w].k /\ << w, 1, k >> \in executed
       /\ taskOut # << >>

\* the reply kind that answers a command
AnswerTo(cmd) ==
    CASE cmd = "stop" -> "stopped"
      [] cmd = "kill" -> "killed"
      [] OTHER -> "pid"

\* C25: a pool reads a control request only when it has none unanswered,
\* and the request it has read leaves it only with a reply sent to the
\* master that made it; a reply in flight to a master answers the command
\* that master is waiting on, from the pool of the host it addressed.
C25_OneRequestAtATime ==
    /\ [](\A m \in Masters :
            rep[m] # NoRep
               => /\ mpc[m] = "wait"
                  /\ rep[m].kind = AnswerTo(mop[m])
                  /\ phost[rep[m].from] = host_cores[midx[m]].host)
    /\ [](\A p \in Pools : (pstate[p] = "reply") = (pcur[p] # NoCur))
    /\ [][\A p \in Pools :
            pcur'[p] # pcur[p]
               => \/ /\ pcur[p] = NoCur
                     /\ pcur'[p].m \in Masters
                     /\ req[pcur'[p].m] = [h |-> phost[p], cmd |-> pcur'[p].cmd]
                     /\ req'[pcur'[p].m] = NoReq
                     /\ rep' = rep
                  \/ /\ pcur'[p] = NoCur
                     /\ rep[pcur[p].m] = NoRep
                     /\ rep'[pcur[p].m].from = p
                     /\ rep'[pcur[p].m].kind = AnswerTo(pcur[p].cmd)
                     /\ \A m \in Masters \ {pcur[p].m} : rep'[m] = rep[m]
                     /\ req' = req]_vars

\* a pool has read the request of one master and not yet answered it
\* while the request of the other master for the same host is in flight
C25_Witness ==
    \E p \in Pools :
       /\ pstate[p] = "reply"
       /\ pcur[p].m = 2
       /\ req[1].h = phost[p]
       /\ req[1].cmd = "getpid"

\* C26: the streamer never leaves streamer() with an exception, whether a
\* bind fails, the proxy fails or it is interrupted; once it has ended it
\* stays ended and forwards nothing: what is pushed to the inbound
\* endpoint stays there.
C26_StreamerEndsQuietly ==
    /\ [](streamer \in {"new", "running", "ended"})
    /\ [][/\ streamer # "running"
                => /\ Len(taskIn') >= Len(taskIn)
                   /\ SubSeq(taskIn', 1, Len(taskIn)) = taskIn
          /\ streamer = "ended"
                => /\ streamer' = "ended"
                   /\ Len(taskOut') <= Len(taskOut)]_vars

\* the streamer has ended while a run is sending: a task pushed to the
\* inbound endpoint afterwards waits there
C26_Witness ==
    /\ streamer = "ended"
    /\ runpc[1] = "sending"
    /\ taskIn # << >>
    /\ taskOut = << >>

\* the tasks of run r in a queue, in queue order
TasksOfRun(sq, r) ==
    LET F[i \in 0..Len(sq)] ==
          IF i = 0 THEN << >>
          ELSE IF sq[i].run = r THEN Append(F[i - 1], sq[i]) ELSE F[i - 1]
    IN  F[Len(sq)]

\* C27: the tasks of a run that wait at the outbound endpoint followed by
\* those that wait at the inbound endpoint are, unchanged and in sending
\* order, the last tasks the run has sent: none is dropped, duplicated or
\* created; a relay step moves the oldest inbound message to the tail of
\* the outbound queue.
C27_RelayExactlyOnceInOrder ==
    /\ [](\A r \in TaskRuns :
            LET q == TasksOfRun(taskOut, r) \o TasksOfRun(taskIn, r) IN
              /\ Len(q) <= nsent[r]
              /\ \A i \in 1..Len(q) :
                   q[i] = [run |-> r, k |-> nsent[r] - Len(q) + i,
                           raises |-> iterargs[r][nsent[r] - Len(q) + i],
                           backurl |-> rport[r]])
    /\ [][Len(taskOut') > Len(taskOut)
            => /\ streamer = "running"
               /\ taskIn # << >>
               /\ taskOut' = Append(taskOut, Head(taskIn))
               /\ taskIn' = Tail(taskIn)]_vars

\* the running streamer has forwarded two tasks, in order, and a third
\* waits at its inbound endpoint
C27_Witness ==
    /\ streamer = "running"
    /\ Len(taskOut) = 2
    /\ taskOut[1].k = 1 /\ taskOut[2].k = 2
    /\ Len(taskIn) = 1 /\ taskIn[1].k = 3

\* a step of the status call of master m
StatusStepped(m) ==
    /\ mop[m] = "status"
    /\ mpc[m] = "loop"
    /\ << mpc[m], midx[m], mout[m], mret[m], stat[m] >>
          # << mpc'[m], midx'[m], mout'[m], mret'[m], stat'[m] >>

\* C28: a step of status sends no control request and changes nothing of
\* any pool, worker, queue or run; every probe socket it has created is
\* closed when the step is over, so none is open when status returns or
\* raises.
C28_StatusIsAPureProbe ==
    /\ [](\A m \in CtlMasters : stat[m].open = 0)
    /\ [][\A m \in CtlMasters :
            StatusStepped(m)
               => /\ req' = req /\ rep' = rep
                  /\ pvars' = pvars /\ wvars' = wvars
                  /\ svars' = svars /\ rvars' = rvars
                  /\ inbox' = inbox]_vars

\* status() has returned 'running' for a host whose pool is in its
\* control loop with its workers idle
C28_Witness ==
    \E p \in Pools :
       /\ mop[1] = "status" /\ mpc[1] = "idle"
       /\ mret[1].kind = "list"
       /\ stat[1].lst = << << phost[p], "running" >> >>
       /\ pstate[p] = "loop" /\ pworkers[p] = 2
       /\ \A w \in Own(p) : wstate[w] = "idle"

\* the hosts of the configured entries that status(h) keeps, in order
Matching(h) ==
    LET F[i \in 0..Len(host_cores)] ==
          IF i = 0 THEN << >>
          ELSE IF h \in {0, host_cores[i].host}
               THEN Append(F[i - 1], host_cores[i].host)
               ELSE F[i - 1]
    IN  F[Len(host_cores)]

\* C29: a status call that has ended has returned a list with exactly one
\* pair for each configured entry that matches its argument, in
\* configuration order, each with state 'running' or 'not-running'; the
\* state appended for a host is 'running' exactly if the connection to its
\* control port succeeds.
C29_StatusOnePairPerHost ==
    /\ [](\A m \in CtlMasters :
            (mop[m] = "status" /\ mpc[m] = "idle")
               => /\ mret[m].kind = "list"
                  /\ Len(stat[m].lst) = Len(Matching(stat[m].arg))
                  /\ \A i \in 1..Len(stat[m].lst) :
                       /\ stat[m].lst[i][1] = Matching(stat[m].arg)[i]
                       /\ stat[m].lst[i][2] \in {"running", "not-running"})
    /\ [][\A m \in CtlMasters :
            stat'[m].lst # stat[m].lst /\ mpc[m] = "loop"
               => \E h \in Hosts :
                     stat'[m].lst = Append(stat[m].lst,
                                           << h, IF ctrlBound[h] # 0 THEN "running"
                                                 ELSE "not-running" >>)]_vars

\* C30: a pool that has honored stop or kill and is still alive holds no
\* worker handle.
C30_HandlesRemovedOnStop ==
    \A p \in Pools : pstate[p] = "done" => pworkers[p] = 0

\* C31: a pool that has read a control request, whatever its string, is
\* done with it only by sending one reply to the client that made it.
C31_EveryRequestAnswered ==
    [][\A p \in Pools :
         (pstate[p] = "reply" /\ pstate'[p] # "reply")
            => /\ rep[pcur[p].m] = NoRep
               /\ rep'[pcur[p].m] # NoRep
               /\ rep'[pcur[p].m].from = p]_vars

\* C32: every stop() and kill() call of a master eventually returns,
\* whatever another master does at the same time.
C32_StopAlwaysReturns ==
    \A m \in Masters :
       (mop[m] \in {"stop", "kill"} /\ mpc[m] # "idle") ~> (mpc[m] = "idle")

\* the cores configured for host h
CoresOf(h) ==
    LET S == { i \in 1..Len(host_cores) : host_cores[i].host = h }
    IN  IF S = {} THEN 0 ELSE host_cores[CHOOSE i \in S : TRUE].cores

\* the live workers of the pools launched for host h
LiveOn(h) == { w \in Workers : Live(w) /\ phost[w[1]] = h }

\* C33: whatever start() calls are made, a host never has more live
\* workers than its configured cores, and no live worker belongs to a pool
\* that has failed to bind the control endpoint of its host.
C33_WorkersWithinCores ==
    /\ \A h \in Hosts : Cardinality(LiveOn(h)) <= CoresOf(h)
    /\ \A w \in Workers : Live(w) => pstate[w[1]] # "bindfail"

\* C34: the pool that owns the control port of a host has spawned all its
\* num_workers workers, so when a status probe appends 'running' for a
\* host, the pool it has reached holds every one of its handles and its
\* spawn phase is over.
C34_RunningMeansSpawned ==
    /\ [](\A h \in Hosts :
            ctrlBound[h] # 0
               => /\ pstate[ctrlBound[h]] \in {"loop", "reply", "done"}
                  /\ phost[ctrlBound[h]] = h
                  /\ pworkers[ctrlBound[h]] = pcores[ctrlBound[h]]
                  /\ \A i \in 1..pcores[ctrlBound[h]] :
                       wstate[<< ctrlBound[h], i >>] # "none")
    /\ [][\A m \in CtlMasters, h \in Hosts :
            (StatusStepped(m)
               /\ stat'[m].lst = Append(stat[m].lst, << h, "running" >>))
               => /\ ctrlBound[h] # 0
                  /\ pworkers[ctrlBound[h]] = pcores[ctrlBound[h]]
                  /\ pcores[ctrlBound[h]] = CoresOf(h)]_vars

\* status() has reported the first host running and the second, whose
\* pool is still in its spawn phase, not running
C34_Witness ==
    /\ mop[1] = "status" /\ mpc[1] = "idle"
    /\ stat[1].lst = << << 1, "running" >>, << 2, "not-running" >> >>
    /\ \E p \in Pools :
         /\ phost[p] = 2
         /\ pstate[p] = "spawning"
         /\ pworkers[p] < pcores[p]

\* C35: the reply endpoint of a run is bound while the run sends and
\* collects, and is closed only when the run has yielded as many results
\* as it sent; a task is in flight only while the endpoint it names is
\* bound by its run, so every push of a worker goes to a bound endpoint.
C35_ReplyEndpointOutlivesTasks ==
    /\ [](\A r \in TaskRuns :
            /\ runpc[r] \in {"sending", "collect"} => rport[r] \in Ports
            /\ runpc[r] = "done" => rport[r] = 0
            /\ rport[r] = 0 => \A t \in TasksInFlight : t.run # r)
    /\ [][/\ \A r \in TaskRuns :
               (rport[r] # 0 /\ rport'[r] # rport[r])
                  => /\ rport'[r] = 0
                     /\ Len(got[r]) = nsent[r]
                     /\ nsent[r] = Len(iterargs[r])
                     /\ inbox[rport[r]] = << >>
          /\ \A w \in Workers :
               (wstate[w] = "busy" /\ wstate'[w] = "idle")
                  => /\ wtask[w].backurl \in BoundPorts
                     /\ wtask[w].backurl = rport[wtask[w].run]
                     /\ rport' = rport]_vars

\* a run has yielded all results but one, and its reply endpoint is still
\* bound while a worker holds the last task
C35_Witness ==
    /\ runpc[1] = "collect"
    /\ nsent[1] = 3 /\ Len(got[1]) = 2
    /\ inbox[rport[1]] = << >>
    /\ \E w \in Workers :
         /\ wstate[w] = "busy"
         /\ wtask[w].run = 1
         /\ wtask[w].backurl = rport[1]

====
